---- MODULE Spec2Model ----
(***************************************************************************)
(* A model of src/main.py: the NetworkClipboard store (load_data,          *)
(* save_data, create_entry, get_entry) and the two Flask routes over it    *)
(* (POST /create, GET /get/<entry_id>), served by worker threads that      *)
(* share the one module-level `clipboard` object and its storage file.     *)
(***************************************************************************)
EXTENDS Integers, Sequences, FiniteSets, TLC

\* ------------------------------------------------------------------ bounds
\* create_entry calls started over the whole run (also caps the uuid1 clock).
MaxCreates == 2
\* Worker threads of the HTTP server handling requests at the same time.
Threads == {1, 2}
\* The 8-character prefixes str(uuid.uuid4())[:8] can produce (really 16^8).
Ids == {"id1", "id2"}
\* An identifier no create_entry call ever draws (GET /get/doesnotexist).
NoSuchId == "nope"
\* Content strings a client submits.
Contents == {"", "a"}

\* ------------------------------------------------------ JSON text of a file
\* The text json.dump(self.data, f, indent=2) writes, as a sequence of symbols:
\* "{" E . . . "," E . . . "}".  An entry's text is the symbol E followed by
\* filler symbols; its width grows with the length of the content string, as
\* the real text does.  EntryWidth is large enough that two entry boundaries
\* at the same offset have the same number of entries before them, which is
\* true of the real text (an entry is over 90 bytes long).
EntryWidth == MaxCreates + 3

Sym(s) == [sym |-> s, id |-> "", content |-> "", timestamp |-> 0]

EntrySym(e) == [sym |-> "E", id |-> e.id, content |-> e.content, timestamp |-> e.timestamp]

Fill(n) == [i \in 1..n |-> Sym(".")]

\* ------------------------------------------------------------- dict values
\* self.data: a Python dict keeps insertion order; assigning to an existing
\* key replaces the value in place.  kind = "other" is a value json.load
\* returned that is no dict (a list, a number, a string, null).
EmptyDict == [kind |-> "dict", items |-> <<>>]

NotADict == [kind |-> "other", items |-> <<>>]

Keys(d) == {d.items[i].id : i \in 1..Len(d.items)}

\* self.data[entry_id] = {...}
DictSet(d, e) ==
    IF e.id \in Keys(d)
    THEN [d EXCEPT !.items = [i \in 1..Len(d.items) |->
                                 IF d.items[i].id = e.id THEN e ELSE d.items[i]]]
    ELSE [d EXCEPT !.items = Append(d.items, e)]

\* The chunk json.dump writes for the i-th item of the dict.
ItemChunk(e, i) ==
    (IF i > 1 THEN <<Sym(",")>> ELSE <<>>)
        \o <<EntrySym(e)>> \o Fill(EntryWidth - 1 + Len(e.content))

RECURSIVE DumpItems(_, _)
DumpItems(items, i) ==
    IF i > Len(items) THEN <<>>
    ELSE ItemChunk(items[i], i) \o DumpItems(items, i + 1)

\* The whole text of json.dump(d, f, indent=2) for a dict d.
DumpText(d) == <<Sym("{")>> \o DumpItems(d.items, 1) \o <<Sym("}")>>

\* ------------------------------------------------------------ json.load
JsonError == [err |-> "JSONDecodeError", value |-> EmptyDict]

\* The items of a JSON object, from position i of the text b.
RECURSIVE ParseItems(_, _, _)
ParseItems(b, i, acc) ==
    IF i > Len(b) \/ b[i].sym # "E" THEN JsonError
    ELSE LET e == [id |-> b[i].id, content |-> b[i].content,
                   timestamp |-> b[i].timestamp]
             j == i + EntryWidth + Len(e.content)
         IN  IF j > Len(b) \/ \E k \in (i + 1)..(j - 1) : b[k].sym # "."
             THEN JsonError
             ELSE IF b[j].sym = ","
             THEN ParseItems(b, j + 1, DictSet(acc, e))
             ELSE IF b[j].sym = "}" /\ j = Len(b)
             THEN [err |-> "none", value |-> DictSet(acc, e)]
             ELSE JsonError

\* json.load(f) on a file opened in text mode: bytes the encoding cannot
\* decode raise UnicodeDecodeError (a ValueError that is no JSONDecodeError);
\* text that is no JSON document raises JSONDecodeError; a JSON document is
\* returned whatever its type.
json_load(b) ==
    IF \E i \in 1..Len(b) : b[i].sym = "bad"
    THEN [err |-> "UnicodeDecodeError", value |-> EmptyDict]
    ELSE IF b = <<Sym("["), Sym("]")>> THEN [err |-> "none", value |-> NotADict]
    ELSE IF b = <<Sym("{"), Sym("}")>> THEN [err |-> "none", value |-> EmptyDict]
    ELSE IF Len(b) >= 1 /\ b[1].sym = "{" THEN ParseItems(b, 2, EmptyDict)
    ELSE JsonError

\* ------------------------------------------------------------ the store
\* NetworkClipboard.load_data: what it returns, or the exception it raises.
load_data(f) ==
    IF ~f.exists THEN [raised |-> "none", value |-> EmptyDict]
    ELSE IF ~f.readable THEN [raised |-> "none", value |-> EmptyDict]
    ELSE LET r == json_load(f.bytes)
         IN  IF r.err = "none" THEN [raised |-> "none", value |-> r.value]
             ELSE IF r.err = "JSONDecodeError"
             THEN [raised |-> "none", value |-> EmptyDict]
             ELSE [raised |-> r.err, value |-> EmptyDict]

\* NetworkClipboard.get_entry: self.data.get(entry_id).  A value that is no
\* dict has no attribute get.  found = FALSE is None; len is the number of keys
\* of the entry found.
get_entry(d, id) ==
    IF d.kind # "dict"
    THEN [exc |-> "AttributeError", found |-> FALSE, len |-> 0,
          content |-> "", timestamp |-> 0]
    ELSE IF id \in Keys(d)
    THEN LET e == CHOOSE x \in {d.items[i] : i \in 1..Len(d.items)} : x.id = id
         IN  [exc |-> "none", found |-> TRUE, len |-> Cardinality({"content", "timestamp"}),
              content |-> e.content, timestamp |-> e.timestamp]
    ELSE [exc |-> "none", found |-> FALSE, len |-> 0, content |-> "", timestamp |-> 0]

\* A truth test on the entry's text instead of on the entry.
EntryTruthyByContent(r) == r.found /\ r.content # ""

\* `if entry:` in get_clipboard_entry: None is false; an entry is a dict with
\* the two keys content and timestamp, and a dict that is not empty is true.
EntryTruthy(r) == r.found /\ r.len # 0

\* Writing the buffered text buf at offset 0 of a file holding `bytes`: the
\* bytes beyond the end of buf stay (the file was truncated when it was
\* opened, not when it is flushed).
Overlay(buf, bytes) == buf \o SubSeq(bytes, Len(buf) + 1, Len(bytes))

\* -------------------------------------------------------- HTTP requests
\* request.json of a POST /create: None, or the JSON value of the body.
\* size is len() of a container or a string, or the value of a number;
\* members are the strings x for which `x in data` is true.
NoBody == [type |-> "none", size |-> 0, members |-> {}, content |-> ""]

ObjectBody(c) == [type |-> "object", size |-> 1, members |-> {"content"}, content |-> c]

Bodies ==
    { NoBody,
      [type |-> "object", size |-> 0, members |-> {}, content |-> ""],
      [type |-> "object", size |-> 1, members |-> {"text"}, content |-> ""],
      [type |-> "number", size |-> 5, members |-> {}, content |-> ""],
      [type |-> "array", size |-> 1, members |-> {"content"}, content |-> ""] }
    \cup {ObjectBody(c) : c \in Contents}

\* Python's `not data`.
Falsy(b) == b.type = "none" \/ b.size = 0

\* `if not data or 'content' not in data` followed by data['content']:
\* `in` on a number raises TypeError; subscripting a list or a string with
\* 'content' raises TypeError.
RouteGuard(b) ==
    IF Falsy(b) THEN "reject"
    ELSE IF b.type \in {"number", "bool"} THEN "TypeError"
    ELSE IF "content" \notin b.members THEN "reject"
    ELSE IF b.type # "object" THEN "TypeError"
    ELSE "accept"

NoResp ==
    [op |-> "none", at |-> "", status |-> 0, exc |-> "none", error |-> "",
     id |-> "", content |-> "", timestamp |-> 0, body |-> NoBody, rid |-> ""]

\* jsonify({"error": "Content is required"}), 400
BadRequest(b) ==
    [NoResp EXCEPT !.op = "create", !.at = "route", !.status = 400,
                   !.error = "Content is required", !.body = b]

\* An exception the handler does not catch: Flask answers 500.
ServerError(op, at, exc, b, rid) ==
    [NoResp EXCEPT !.op = op, !.at = at, !.status = 500, !.exc = exc,
                   !.body = b, !.rid = rid]

\* jsonify({"id": entry_id})
Created(b, id) ==
    [NoResp EXCEPT !.op = "create", !.at = "route", !.status = 200,
                   !.id = id, !.body = b]

\* get_clipboard_entry's response for the identifier id.
GetResponse(d, id) ==
    LET r == get_entry(d, id)
    IN  IF r.exc # "none" THEN ServerError("get", "get_entry", r.exc, NoBody, id)
        ELSE IF EntryTruthy(r)
        THEN [NoResp EXCEPT !.op = "get", !.at = "route", !.status = 200,
                            !.content = r.content, !.timestamp = r.timestamp,
                            !.rid = id]
        ELSE [NoResp EXCEPT !.op = "get", !.at = "route", !.status = 404,
                            !.error = "Entry not found", !.rid = id]

\* ---------------------------------------------------------------- state
VARIABLES
    data,    \* clipboard.data, the in-memory mapping
    file,    \* the storage file clipboard_data.json
    th,      \* each worker thread's position in create_clipboard_entry
    clock,   \* the uuid1 clock: timestamps drawn so far
    resp,    \* the response of the request answered by the last step, if any
    boot,    \* whether this process started, and the mapping it started with
    hist,    \* what create_entry calls of this process have done so far
    disk     \* the disk access of the last step: "none", "read" or "write"

vars == <<data, file, th, clock, resp, boot, hist, disk>>

IdleTh ==
    [pc |-> "idle", content |-> "", id |-> "", timestamp |-> 0,
     snap |-> 0, pos |-> 0, buf |-> <<>>, err |-> "none"]

\* An entry a process before this one wrote to the file.
OldEntry == [id |-> "id1", content |-> "a", timestamp |-> 0]

\* The storage location when the first process starts.
InitFiles ==
    { [exists |-> FALSE, readable |-> TRUE, bytes |-> <<>>],
      [exists |-> TRUE, readable |-> FALSE, bytes |-> <<>>],
      [exists |-> TRUE, readable |-> TRUE, bytes |-> <<Sym("x")>>],
      [exists |-> TRUE, readable |-> TRUE, bytes |-> <<Sym("bad")>>],
      [exists |-> TRUE, readable |-> TRUE, bytes |-> <<Sym("["), Sym("]")>>],
      [exists |-> TRUE, readable |-> TRUE,
       bytes |-> DumpText(DictSet(EmptyDict, OldEntry))] }

\* The storage location as load_data sees it.
FileClass(f) ==
    IF ~f.exists THEN "absent"
    ELSE IF ~f.readable THEN "unreadable"
    ELSE LET r == json_load(f.bytes)
         IN  IF r.err = "none" /\ r.value.kind = "dict" THEN "mapping"
             ELSE "corrupt"

\* NetworkClipboard.__init__ at module import: self.data = self.load_data().
\* When load_data raises, the import fails and the process serves nothing
\* (up = FALSE).
Start(f) ==
    LET r == load_data(f)
    IN  /\ data = r.value
        /\ boot = [up |-> r.raised = "none", value |-> r.value]
        /\ hist = [created |-> {}, returned |-> Keys(r.value),
                   failed |-> FALSE, ioerr |-> FALSE]
        /\ th = [t \in Threads |-> IdleTh]
        /\ resp = NoResp
        /\ disk = IF f.exists THEN "read" ELSE "none"

Init ==
    /\ file \in InitFiles
    /\ clock = 0
    /\ Start(file)

\* create_entry calls that have not drawn their timestamp yet.
Pending == Cardinality({t \in Threads : th[t].pc = "ins"})

\* entry_id = str(uuid.uuid4())[:8]: any 8-character prefix, in use or not.
uuid4 == Ids

\* POST /create with request.json = b: lines 210-214, and for a body that is
\* accepted the call of create_entry up to the identifier it draws (line 57),
\* which touches nothing the threads share.
create_clipboard_entry(t, b) ==
    /\ boot.up
    /\ th[t].pc = "idle"
    /\ LET g == RouteGuard(b)
       IN  \/ /\ g = "reject"
              /\ resp' = BadRequest(b)
              /\ th' = th
           \/ /\ g = "TypeError"
              /\ resp' = ServerError("create", "route", "TypeError", b, "")
              /\ th' = th
           \/ /\ g = "accept"
              /\ clock + Pending < MaxCreates
              /\ resp' = NoResp
              /\ \E id \in uuid4 :
                    th' = [th EXCEPT ![t] = [IdleTh EXCEPT !.pc = "ins",
                                                          !.content = b.content,
                                                          !.id = id]]
    /\ disk' = "none"
    /\ UNCHANGED <<data, file, clock, boot, hist>>

\* self.data[entry_id] = {'content': content, 'timestamp': str(uuid.uuid1())}.
\* Item assignment on a value that is no dict raises TypeError.
insert(t) ==
    /\ th[t].pc = "ins"
    /\ clock' = clock + 1
    /\ IF data.kind = "dict"
       THEN /\ data' = DictSet(data, [id |-> th[t].id, content |-> th[t].content,
                                      timestamp |-> clock'])
            /\ th' = [th EXCEPT ![t].pc = "open", ![t].timestamp = clock']
            /\ resp' = NoResp
            /\ hist' = hist
       ELSE /\ data' = data
            /\ th' = [th EXCEPT ![t] = IdleTh]
            /\ resp' = ServerError("create", "create_entry", "TypeError",
                                   ObjectBody(th[t].content), "")
            /\ hist' = [hist EXCEPT !.failed = TRUE]
    /\ disk' = "none"
    /\ UNCHANGED <<file, boot>>

\* save_data: open(self.storage_file, 'w') truncates the file, or raises an
\* OSError and leaves it alone.
open(t) ==
    /\ th[t].pc = "open"
    /\ \/ /\ file' = [file EXCEPT !.exists = TRUE,
                                  !.readable = IF file.exists THEN @ ELSE TRUE,
                                  !.bytes = <<>>]
          /\ th' = [th EXCEPT ![t].pc = "iter"]
          /\ resp' = NoResp
          /\ hist' = hist
       \/ /\ file' = file
          /\ th' = [th EXCEPT ![t] = IdleTh]
          /\ resp' = ServerError("create", "create_entry", "IOError",
                                 ObjectBody(th[t].content), "")
          /\ hist' = [hist EXCEPT !.failed = TRUE, !.ioerr = TRUE]
    /\ disk' = "write"
    /\ UNCHANGED <<data, clock, boot>>

\* json.dump starts: it writes '{' to the file object's buffer and creates
\* the iterator over self.data.items(), which remembers the dict's size.
dump_start(t) ==
    /\ th[t].pc = "iter"
    /\ th' = [th EXCEPT ![t].pc = "dump", ![t].buf = <<Sym("{")>>,
                        ![t].snap = Len(data.items), ![t].pos = 0]
    /\ resp' = NoResp
    /\ disk' = "none"
    /\ UNCHANGED <<data, file, clock, boot, hist>>

\* One next() of the iterator: RuntimeError when the dict's size is no longer
\* the size remembered; else the next item's text goes to the buffer, or,
\* after the last item, the closing brace.
dump_next(t) ==
    /\ th[t].pc = "dump"
    /\ IF Len(data.items) # th[t].snap
       THEN th' = [th EXCEPT ![t].pc = "close", ![t].err = "RuntimeError"]
       ELSE IF th[t].pos < th[t].snap
       THEN th' = [th EXCEPT ![t].pos = @ + 1,
                             ![t].buf = @ \o ItemChunk(data.items[th[t].pos + 1],
                                                       th[t].pos + 1)]
       ELSE th' = [th EXCEPT ![t].pc = "close", ![t].buf = @ \o <<Sym("}")>>]
    /\ resp' = NoResp
    /\ disk' = "none"
    /\ UNCHANGED <<data, file, clock, boot, hist>>

\* Leaving the with block closes the file: the buffer is written at offset 0,
\* or the write raises an OSError.  An exception raised in the block goes on
\* to the caller after the close.
close(t) ==
    /\ th[t].pc = "close"
    /\ \/ /\ file' = [file EXCEPT !.bytes = Overlay(th[t].buf, @)]
          /\ IF th[t].err = "none"
             THEN /\ th' = [th EXCEPT ![t].pc = "ret", ![t].buf = <<>>,
                                      ![t].snap = 0, ![t].pos = 0]
                  /\ resp' = NoResp
                  /\ hist' = hist
             ELSE /\ th' = [th EXCEPT ![t] = IdleTh]
                  /\ resp' = ServerError("create", "create_entry", th[t].err,
                                         ObjectBody(th[t].content), "")
                  /\ hist' = [hist EXCEPT !.failed = TRUE]
       \/ /\ file' = file
          /\ th' = [th EXCEPT ![t] = IdleTh]
          /\ resp' = ServerError("create", "create_entry", "IOError",
                                 ObjectBody(th[t].content), "")
          /\ hist' = [hist EXCEPT !.failed = TRUE, !.ioerr = TRUE]
    /\ disk' = "write"
    /\ UNCHANGED <<data, clock, boot>>

\* return entry_id, and the route's jsonify({"id": entry_id}).
return_id(t) ==
    /\ th[t].pc = "ret"
    /\ resp' = Created(ObjectBody(th[t].content), th[t].id)
    /\ hist' = [hist EXCEPT
                  !.created = @ \cup {[id |-> th[t].id, content |-> th[t].content,
                                       timestamp |-> th[t].timestamp]},
                  !.returned = @ \cup {th[t].id}]
    /\ th' = [th EXCEPT ![t] = IdleTh]
    /\ disk' = "none"
    /\ UNCHANGED <<data, file, clock, boot>>

\* A get route that reads the storage file again before it looks up.
get_clipboard_entry_reloading(t, id) ==
    /\ boot.up
    /\ th[t].pc = "idle"
    /\ data' = load_data(file).value
    /\ resp' = GetResponse(data', id)
    /\ disk' = "read"
    /\ UNCHANGED <<file, th, clock, boot, hist>>

\* GET /get/<entry_id>.
get_clipboard_entry(t, id) ==
    /\ boot.up
    /\ th[t].pc = "idle"
    /\ resp' = GetResponse(data, id)
    /\ disk' = "none"
    /\ UNCHANGED <<data, file, th, clock, boot, hist>>

\* The process ends (whatever its threads are doing: what they hold in
\* buffers is lost) and a new one starts on the same storage file.
Restart ==
    /\ file' = file
    /\ clock' = clock
    /\ LET r == load_data(file)
       IN  /\ data' = r.value
           /\ boot' = [up |-> r.raised = "none", value |-> r.value]
           /\ hist' = [created |-> {}, returned |-> Keys(r.value),
                       failed |-> FALSE, ioerr |-> FALSE]
    /\ th' = [t \in Threads |-> IdleTh]
    /\ resp' = NoResp
    /\ disk' = IF file.exists THEN "read" ELSE "none"

Step(t) ==
    \/ \E b \in Bodies : create_clipboard_entry(t, b)
    \/ insert(t)
    \/ open(t)
    \/ dump_start(t)
    \/ dump_next(t)
    \/ close(t)
    \/ return_id(t)
    \/ \E id \in Ids \cup {NoSuchId} : get_clipboard_entry(t, id)

Next == (\E t \in Threads : Step(t)) \/ Restart

Spec == Init /\ [][Next]_vars

\* One thread serves every kind of request, the other only GET /get/<id>:
\* reads run alongside every step of a create, and no two creates overlap.
SingleWriterNext ==
    \/ Step(1)
    \/ \E id \in Ids \cup {NoSuchId} : get_clipboard_entry(2, id)
    \/ Restart

SingleWriterSpec == Init /\ [][SingleWriterNext]_vars

\* ---------------------------------------------------------------- claims
\* No create_entry call is in progress.
Quiescent == \A t \in Threads : th[t].pc = "idle"

Items(d) == {d.items[i] : i \in 1..Len(d.items)}

\* No two entries, created by this process or found at its start, share an
\* identifier.
DistinctIds ==
    LET es == Items(boot.value) \cup hist.created
    IN  Cardinality({e.id : e \in es}) = Cardinality(es)

FileHoldsData ==
    /\ file.exists
    /\ json_load(file.bytes) = [err |-> "none", value |-> data]

AllIds == Ids \cup {NoSuchId}

\* C1: every identifier a create_entry call of this process returned still
\* resolves, through get_entry, to the content and timestamp of the entry that
\* call created.
C1_ReturnedIdResolves ==
    \A e \in hist.created :
        LET r == get_entry(data, e.id)
        IN  r.found /\ r.content = e.content /\ r.timestamp = e.timestamp

\* C2: when all the create requests made of a process that started with an
\* empty store have completed (none raised, no two drew the same identifier),
\* the mapping holds one entry for each of them and the file holds exactly
\* the mapping.
C2_NoLostUpdate ==
    (/\ Quiescent
     /\ ~hist.failed
     /\ boot.value = EmptyDict
     /\ hist.created # {}
     /\ DistinctIds)
    => /\ Len(data.items) = Cardinality(hist.created)
       /\ Items(data) = hist.created
       /\ FileHoldsData

\* C3: once the create_entry calls have completed (none raised, no two
\* entries share an identifier), a new process loading the storage file holds
\* every entry created so far, under its identifier with its content and
\* timestamp, and nothing else.
C3_RestartRoundTrip ==
    (/\ Quiescent
     /\ ~hist.failed
     /\ hist.created # {}
     /\ file.readable
     /\ DistinctIds)
    => LET r == load_data(file)
       IN  /\ r.raised = "none"
           /\ r.value.kind = "dict"
           /\ Items(r.value) = Items(boot.value) \cup hist.created

C5_UnknownIdNotFound ==
    (boot.up /\ Quiescent) =>
        \A id \in AllIds \ hist.returned :
            LET r == get_entry(data, id)
                g == GetResponse(data, id)
            IN  /\ r.exc = "none"
                /\ ~r.found
                /\ g.status = 404
                /\ g.error = "Entry not found"

\* C6: whatever the storage location holds, load_data raises nothing, and it
\* returns the empty mapping unless the file holds an identifier-to-entry
\* mapping.
C6_LoadFallsBack ==
    LET r == load_data(file)
    IN  /\ r.raised = "none"
        /\ FileClass(file) # "mapping" => r.value = EmptyDict

\* C7: a create_entry call on a store whose data is a mapping fails only with
\* an I/O error of the storage file.
C7_CreateFailsOnlyOnIO ==
    (/\ data.kind = "dict"
     /\ resp.op = "create"
     /\ resp.at = "create_entry"
     /\ resp.status = 500)
    => resp.exc = "IOError"

\* The body of a POST /create has a content field.
HasContentField(b) == b.type = "object" /\ "content" \in b.members

\* C8: a POST /create whose body has no content field is answered 400 with
\* the error 'Content is required'.
C8_MissingContentIs400 ==
    (resp.op = "create" /\ ~HasContentField(resp.body))
    => (resp.status = 400 /\ resp.error = "Content is required")

\* C9: a step that answers a GET /get/<id>, found or not, leaves the mapping
\* and the storage file as they were and does not access the disk.
C9_GetIsPureRead ==
    [][resp'.op = "get" => (data' = data /\ file' = file /\ disk' = "none")]_vars

\* C9's case: a GET for an absent identifier was answered while another
\* thread's create_entry was about to flush its rewrite of the file.
C9_Witness ==
    /\ resp.op = "get"
    /\ resp.status = 404
    /\ data.items # <<>>
    /\ \E t \in Threads : th[t].pc = "close"

\* C10: whenever no create_entry call is in progress, at least one has
\* completed, none hit an I/O error and no two entries share an identifier,
\* the storage file holds exactly the in-memory mapping.
C10_FileIsMapping ==
    (Quiescent /\ hist.created # {} /\ ~hist.ioerr /\ DistinctIds) => FileHoldsData

====
